---- MODULE Spec2Model ----
(***************************************************************************)
(* Model of consumers/json_consumer_webb.py: a reader that tails a         *)
(* line-oriented JSON file, folds every accepted record into the           *)
(* hour x category table hourly_category_counts and redraws a line chart.  *)
(*                                                                         *)
(* Text is modelled at two levels.  A timestamp is a sequence of           *)
(* one-character strings, parsed the way datetime.strptime parses          *)
(* "%Y-%m-%d %H:%M:%S".  A line of the file is a sequence of tokens: the   *)
(* body of a JSON text (whole, or cut in a head and a tail by a writer     *)
(* that appends it in two writes) and the newline.                         *)
(***************************************************************************)
EXTENDS Integers, Sequences, FiniteSets, TLC

(***************************************************************************)
(* Bounds of the model.                                                    *)
(***************************************************************************)
\* number of append operations the writer performs after the file exists
MaxAppends == 2
\* number of complete lines the file may hold before the consumer starts
MaxPre == 1
\* number of lines handed directly to process_message (specification SpecPM)
MaxFeed == 3
\* number of calls of update_chart in all (specification SpecChart)
MaxRenders == 4

(***************************************************************************)
(* datetime.strptime(timestamp_str, "%Y-%m-%d %H:%M:%S")                   *)
(***************************************************************************)
Digits == <<"0", "1", "2", "3", "4", "5", "6", "7", "8", "9">>

IsDigit(c) == \E i \in 1..10 : Digits[i] = c

DigitVal(c) == (CHOOSE i \in 1..10 : Digits[i] = c) - 1

AllDigits(s) == \A i \in 1..Len(s) : IsDigit(s[i])

RECURSIVE NumVal(_)
NumVal(s) ==
    IF Len(s) = 0 THEN 0
    ELSE 10 * NumVal(SubSeq(s, 1, Len(s) - 1)) + DigitVal(s[Len(s)])

\* the text of length n that starts at position a
Field(s, a, n) == SubSeq(s, a, a + n - 1)

\* %Y : \d\d\d\d
MatchY(f) == Len(f) = 4 /\ AllDigits(f)

\* %m : 1[0-2]|0[1-9]|[1-9]
Matchm(f) ==
    /\ Len(f) \in 1..2
    /\ AllDigits(f)
    /\ NumVal(f) \in 1..12

\* %d : 3[0-1]|[1-2]\d|0[1-9]|[1-9]
Matchd(f) ==
    /\ Len(f) \in 1..2
    /\ AllDigits(f)
    /\ NumVal(f) \in 1..31

\* an hour field of any one or two digits
MatchH_any_digits(f) ==
    /\ Len(f) \in 1..2
    /\ AllDigits(f)

\* %H : 2[0-3]|[0-1]\d|\d
MatchH(f) ==
    /\ Len(f) \in 1..2
    /\ AllDigits(f)
    /\ NumVal(f) \in 0..23

\* %M : [0-5]\d|\d
MatchM(f) ==
    /\ Len(f) \in 1..2
    /\ AllDigits(f)
    /\ NumVal(f) \in 0..59

\* %S : 6[0-1]|[0-5]\d|\d
MatchS(f) ==
    /\ Len(f) \in 1..2
    /\ AllDigits(f)
    /\ NumVal(f) \in 0..61

\* a blank of the format stands for \s+
IsSpaces(f) == Len(f) >= 1 /\ \A i \in 1..Len(f) : f[i] = " "

IsLeap(y) == (y % 4 = 0 /\ y % 100 # 0) \/ y % 400 = 0

DaysInMonth(y, m) ==
    IF m = 2 THEN (IF IsLeap(y) THEN 29 ELSE 28)
    ELSE IF m \in {4, 6, 9, 11} THEN 30 ELSE 31

\* The ways the format matches the whole of s: the lengths of the fields
\* %m, %d, \s+, %H, %M, %S.  No match, or text left over, is a ValueError.
FormatMatches(s) ==
    { w \in (1..2) \X (1..2) \X (1..Len(s)) \X (1..2) \X (1..2) \X (1..2) :
        LET pm == 6
            pd == pm + w[1] + 1
            ps == pd + w[2]
            pH == ps + w[3]
            pM == pH + w[4] + 1
            pS == pM + w[5] + 1
        IN  /\ pS + w[6] - 1 = Len(s)
            /\ MatchY(Field(s, 1, 4))
            /\ s[5] = "-"
            /\ Matchm(Field(s, pm, w[1]))
            /\ s[pd - 1] = "-"
            /\ Matchd(Field(s, pd, w[2]))
            /\ IsSpaces(Field(s, ps, w[3]))
            /\ MatchH(Field(s, pH, w[4]))
            /\ s[pM - 1] = ":"
            /\ MatchM(Field(s, pM, w[5]))
            /\ s[pS - 1] = ":"
            /\ MatchS(Field(s, pS, w[6])) }

\* The result of strptime: ok = FALSE stands for the ValueError it raises
\* (no match, unconverted data, or a date/time the datetime constructor
\* refuses); otherwise hour is timestamp_obj.hour.
strptime_match(s) ==
    LET ms == FormatMatches(s)
    IN
    IF ms = {} THEN [ok |-> FALSE, hour |-> 0]
    ELSE
        LET w  == CHOOSE x \in ms : TRUE
            pd == 6 + w[1] + 1
            pH == pd + w[2] + w[3]
            pS == pH + w[4] + 1 + w[5] + 1
            y  == NumVal(Field(s, 1, 4))
            mo == NumVal(Field(s, 6, w[1]))
            d  == NumVal(Field(s, pd, w[2]))
            H  == NumVal(Field(s, pH, w[4]))
            S  == NumVal(Field(s, pS, w[6]))
        IN  IF y >= 1 /\ d <= DaysInMonth(y, mo) /\ S <= 59
            THEN [ok |-> TRUE, hour |-> H]
            ELSE [ok |-> FALSE, hour |-> 0]

(***************************************************************************)
(* The JSON texts the writer may put on a line, given by the value that    *)
(* json.loads returns for them.  kind is "dict" for a JSON object, "list"  *)
(* for valid JSON that is not an object, "invalid" for text that is not    *)
(* JSON.  A Python value is a record: a str carries its characters.        *)
(***************************************************************************)
Chars(t) == [t |-> "str", s |-> t]

Str(v) == [t |-> "str", v |-> v]

None == [t |-> "none", v |-> ""]

\* a JSON array: a Python list, which cannot be a dict key
List == [t |-> "list", v |-> ""]

TsGood  == <<"2","0","2","5","-","0","1","-","2","9"," ","1","4",":","3","5",":","2","0">>
TsLate  == <<"2","0","2","5","-","1","2","-","3","1"," ","2","3",":","5","9",":","5","9">>
TsShort == <<"2","0","2","5","-","1","-","2","9"," "," ","0",":","5",":","9">>
TsHour99 == <<"2","0","2","5","-","0","1","-","2","9"," ","9","9",":","0","0",":","0","0">>
TsFeb30 == <<"2","0","2","5","-","0","2","-","3","0"," ","1","0",":","0","0",":","0","0">>

Obj(has_ts, ts, has_cat, cat) ==
    [kind |-> "dict", has_ts |-> has_ts, ts |-> ts, has_cat |-> has_cat, cat |-> cat]

NotObj(kind) ==
    [kind |-> kind, has_ts |-> FALSE, ts |-> Chars(<<>>), has_cat |-> FALSE, cat |-> None]

Payloads ==
    << Obj(TRUE, Chars(TsGood), TRUE, Str("tech")),
       Obj(TRUE, Chars(TsGood), FALSE, None),
       Obj(TRUE, Chars(TsGood), TRUE, Str("sports")),
       Obj(TRUE, Chars(TsLate), TRUE, Str("humor")),
       NotObj("invalid"),
       Obj(TRUE, Chars(TsHour99), TRUE, Str("tech")),
       Obj(FALSE, Chars(<<>>), TRUE, Str("tech")),
       Obj(TRUE, Chars(<<>>), TRUE, Str("food")),
       NotObj("list"),
       Obj(TRUE, Chars(TsGood), TRUE, List),
       Obj(TRUE, [t |-> "int", s |-> <<"5">>], TRUE, Str("tech")),
       Obj(TRUE, Chars(TsShort), FALSE, None),
       Obj(TRUE, Chars(TsGood), TRUE, None),
       Obj(TRUE, Chars(TsFeb30), FALSE, None) >>

\* strptime on the timestamps of Payloads, computed once
Timestamps == { Payloads[k].ts.s : k \in DOMAIN Payloads }

strptime_results == [s \in Timestamps |-> strptime_match(s)]

\* datetime.strptime(timestamp_str, "%Y-%m-%d %H:%M:%S")
strptime(s) == strptime_results[s]

\* the texts handed directly to process_message
FeedKinds == DOMAIN Payloads

\* the texts the writer of the monitored file appends
WriterKinds == {1, 6, 7, 10}

\* the texts of the lines the file may hold before the consumer starts
PreKinds == {1}

(***************************************************************************)
(* Text of the file: a sequence of tokens.                                 *)
(***************************************************************************)
Whole(k) == [part |-> "whole", k |-> k]

HeadPart(k) == [part |-> "head", k |-> k]

TailPart(k) == [part |-> "tail", k |-> k]

NL == [part |-> "nl", k |-> 0]

\* no stripping: the test of the loop is on the line as read
strip_nothing(text) == text

\* str.strip(): the text without its surrounding whitespace (the newline)
strip(text) == SelectSeq(text, LAMBDA tok : tok.part # "nl")

\* readline that starts one position early: the last token read is read again
readline_reread(f, cur) ==
    LET nls == { i \in (cur + 1)..Len(f) : f[i].part = "nl" }
        stop == IF nls = {} THEN Len(f)
                ELSE CHOOSE i \in nls : \A j \in nls : i <= j
    IN  SubSeq(f, IF cur > 0 THEN cur ELSE 1, stop)

\* file.readline(): the text from the cursor up to and including the next
\* newline, or up to the end of the file when no newline follows
readline(f, cur) ==
    LET nls == { i \in (cur + 1)..Len(f) : f[i].part = "nl" }
        stop == IF nls = {} THEN Len(f)
                ELSE CHOOSE i \in nls : \A j \in nls : i <= j
    IN  SubSeq(f, cur + 1, stop)

\* json.loads(message): err stands for json.JSONDecodeError.  The text is
\* JSON when, apart from whitespace, it is one whole body, or the head and
\* the tail of one body, of a JSON text.
json_loads(text) ==
    LET b == strip(text)
        k == b[1].k
        entire == \/ b = <<Whole(k)>>
                  \/ b = <<HeadPart(k), TailPart(k)>>
    IN  IF Len(b) >= 1 /\ entire /\ Payloads[k].kind # "invalid"
        THEN [err |-> FALSE, val |-> Payloads[k]]
        ELSE [err |-> TRUE, val |-> NotObj("invalid")]

\* truth value of a Python value (if timestamp_str:)
Truthy(v) ==
    CASE v.t = "str" -> v.s # <<>>
      [] v.t = "int" -> NumVal(v.s) # 0
      [] OTHER -> FALSE

\* message_dict.get("timestamp", "")
get_timestamp(d) == IF d.has_ts THEN d.ts ELSE Chars(<<>>)

\* a default other than "other" for a missing category
get_category_default_unknown(d) == IF d.has_cat THEN d.cat ELSE Str("unknown")

\* a category outside the palette replaced by "other"
get_category_normalised(d) ==
    IF d.has_cat /\ d.cat \in {Str("humor"), Str("tech"), Str("food"), Str("travel"),
                                Str("entertainment"), Str("gaming"), Str("other")}
    THEN d.cat
    ELSE Str("other")

\* message_dict.get("category", "other")
get_category(d) == IF d.has_cat THEN d.cat ELSE Str("other")

\* a value that can be the key of a dict
Hashable(v) == v.t # "list"

(***************************************************************************)
(* hourly_category_counts = defaultdict(lambda: defaultdict(int)):         *)
(* a function from the hour keys present to a function from the category   *)
(* keys present to the count.  Reading a missing key creates it.           *)
(***************************************************************************)
Hours == 0..23

EmptyRow == [c \in {} |-> 0]

EmptyTable == [h \in {} |-> EmptyRow]

Row(t, h) == IF h \in DOMAIN t THEN t[h] ELSE EmptyRow

Cell(t, h, c) == IF c \in DOMAIN Row(t, h) THEN Row(t, h)[c] ELSE 0

\* hourly_category_counts[hour]: the row is created when missing
TouchRow(t, h) == [x \in DOMAIN t \cup {h} |-> Row(t, x)]

\* an assignment of 1 instead of an increment: a repeated record is not added
Increment_dedup(t, h, c) ==
    [x \in DOMAIN t \cup {h} |->
        IF x = h
        THEN [y \in DOMAIN Row(t, h) \cup {c} |-> IF y = c THEN 1 ELSE Cell(t, h, y)]
        ELSE t[x]]

\* hourly_category_counts[hour][category] += 1
Increment(t, h, c) ==
    [x \in DOMAIN t \cup {h} |->
        IF x = h
        THEN [y \in DOMAIN Row(t, h) \cup {c} |->
                 IF y = c THEN Cell(t, h, c) + 1 ELSE Cell(t, h, y)]
        ELSE t[x]]

(***************************************************************************)
(* update_chart(): the axes hold the plotted lines and the legend.         *)
(***************************************************************************)
\* the keys of category_colors, in the order of the dict
Palette == <<"humor", "tech", "food", "travel", "entertainment", "gaming", "other">>

\* category_colors[category]
category_colors ==
    [c \in {Palette[i] : i \in DOMAIN Palette} |->
        CASE c = "humor" -> "red"
          [] c = "tech" -> "blue"
          [] c = "food" -> "green"
          [] c = "travel" -> "orange"
          [] c = "entertainment" -> "purple"
          [] c = "gaming" -> "brown"
          [] c = "other" -> "gray"]

\* category.capitalize()
capitalize(c) ==
    CASE c = "humor" -> "Humor"
      [] c = "tech" -> "Tech"
      [] c = "food" -> "Food"
      [] c = "travel" -> "Travel"
      [] c = "entertainment" -> "Entertainment"
      [] c = "gaming" -> "Gaming"
      [] c = "other" -> "Other"

\* hours = list(range(24))
hours == [i \in 1..24 |-> i - 1]

RECURSIVE sum(_)
sum(q) == IF Len(q) = 0 THEN 0 ELSE q[1] + sum(SubSeq(q, 2, Len(q)))

\* counts = [hourly_category_counts[hour][category] for hour in hours]
counts(t, category) == [i \in 1..24 |-> Cell(t, hours[i], Str(category))]

EmptyAxes == [lines |-> <<>>, legend |-> <<>>]

\* no clearing: the lines of the earlier calls stay on the axes
ax_keep(axes) == axes

\* ax.clear()
ax_clear(axes) == EmptyAxes

\* ax.plot(hours, counts, label=..., color=...)
ax_plot(axes, category, ys) ==
    [axes EXCEPT !.lines = Append(@, [label |-> capitalize(category),
                                       color |-> category_colors[category],
                                       x |-> hours,
                                       y |-> ys])]

\* ax.legend(): one entry per line of the axes
ax_legend(axes) ==
    [axes EXCEPT !.legend = [i \in 1..Len(axes.lines) |-> axes.lines[i].label]]

\* the loop over category_colors.keys(), from the i-th key on
RECURSIVE plot_from(_, _, _)
plot_from(axes, t, i) ==
    IF i > Len(Palette) THEN axes
    ELSE LET ys == counts(t, Palette[i])
         IN  plot_from(IF sum(ys) > 0 THEN ax_plot(axes, Palette[i], ys) ELSE axes,
                       t, i + 1)

\* the loop without the test sum(counts) > 0: every palette category is plotted
RECURSIVE plot_all_from(_, _, _)
plot_all_from(axes, t, i) ==
    IF i > Len(Palette) THEN axes
    ELSE plot_all_from(ax_plot(axes, Palette[i], counts(t, Palette[i])), t, i + 1)

update_chart_plot_all(axes, t) == ax_legend(plot_all_from(ax_clear(axes), t, 1))

\* a call that draws nothing anew: the axes stay as they were
update_chart_stale(axes, t) == axes

\* update_chart(): the axes after the call
update_chart(axes, t) == ax_legend(plot_from(ax_clear(axes), t, 1))

\* a chart that consumes what it draws: the counts start again from zero
chart_reads_reset(t) ==
    [h \in DOMAIN t \cup Hours |->
        [c \in DOMAIN Row(t, h) \cup {Str(Palette[i]) : i \in DOMAIN Palette} |-> 0]]

\* update_chart(): the table after the call.  The comprehension reads
\* hourly_category_counts[hour][category] for every hour of 0..23 and every
\* palette category, and a defaultdict creates each key it is read at.
chart_reads(t) ==
    [h \in DOMAIN t \cup Hours |->
        [c \in DOMAIN Row(t, h) \cup {Str(Palette[i]) : i \in DOMAIN Palette} |->
            Cell(t, h, c)]]

(***************************************************************************)
(* process_message(message): how the call ends, and its effect on the      *)
(* table up to the call of update_chart.                                   *)
(***************************************************************************)
\* "counted" when the increment of line 158 is reached and succeeds,
\* otherwise the branch or the except clause that ends the call
outcome(message) ==
    LET r == json_loads(message)
    IN  IF r.err THEN "JSONDecodeError"
        ELSE IF r.val.kind # "dict" THEN "not_dict"
        ELSE LET timestamp_str == get_timestamp(r.val)
                 category == get_category(r.val)
             IN  IF ~Truthy(timestamp_str) THEN "missing_timestamp"
                 ELSE IF timestamp_str.t # "str" THEN "TypeError"
                 ELSE IF ~strptime(timestamp_str.s).ok THEN "ValueError"
                 ELSE IF ~Hashable(category) THEN "unhashable"
                 ELSE "counted"

\* the exception the try block of process_message raises, "none" when it
\* raises none: strptime refuses a non-str argument and a dict refuses an
\* unhashable key with a TypeError
raised(message) ==
    CASE outcome(message) = "JSONDecodeError" -> "JSONDecodeError"
      [] outcome(message) = "ValueError" -> "ValueError"
      [] outcome(message) \in {"TypeError", "unhashable"} -> "TypeError"
      [] OTHER -> "none"

\* process_message without its last clause, except Exception
pm_catches_no_catch_all(exc) == exc \in {"JSONDecodeError", "ValueError"}

\* lines 174-179: except json.JSONDecodeError, except ValueError,
\* except Exception (which every exception class of the model derives from)
pm_catches(exc) == exc \in {"JSONDecodeError", "ValueError", "TypeError"}

\* the hour and the category the call computes (lines 147 and 153)
hour_of(message) == strptime(get_timestamp(json_loads(message).val).s).hour

category_of(message) == get_category(json_loads(message).val)

\* a record whose timestamp does not parse counted in hour 0
process_message_default_hour(t, message) ==
    CASE outcome(message) = "counted" ->
            Increment(t, hour_of(message), category_of(message))
      [] outcome(message) = "unhashable" ->
            TouchRow(t, hour_of(message))
      [] outcome(message) = "ValueError" ->
            Increment(t, 0, category_of(message))
      [] OTHER -> t

\* the table after lines 133-158
process_message(t, message) ==
    CASE outcome(message) = "counted" ->
            Increment(t, hour_of(message), category_of(message))
      [] outcome(message) = "unhashable" ->
            TouchRow(t, hour_of(message))
      [] OTHER -> t

(***************************************************************************)
(* State.                                                                  *)
(***************************************************************************)
VARIABLES
    exists,                  \* DATA_FILE.exists()
    file,                    \* the text of DATA_FILE
    wpending,                \* the rest of the line the writer is appending
    appends,                 \* number of appends of the writer so far
    pc,                      \* position of main(): start, poll (WAITING),
                             \* sleep, processing, render, stopped, exited
    cursor,                  \* read position of the open file
    startLen,                \* length of the file when it was opened
    polledLen,               \* length of the file at the last readline, -1 before the first
    line,                    \* the text returned by the last readline
    hourly_category_counts,  \* the aggregate table
    axes,                    \* what the chart shows
    renders,                 \* number of calls of update_chart
    rendered,                \* the table as the last call of update_chart read it
    delivered,               \* the texts passed to process_message, with the offset each was read at
    flushed,                 \* plt.ioff(); plt.show() of the finally clause ran
    exit_code,               \* exit status of the process, -1 while it runs
    stop_cause               \* why the loop ended: none, interrupt, error (an exception
                             \* that reached main's except Exception clause)

vars == <<exists, file, wpending, appends, pc, cursor, startLen, polledLen, line,
          hourly_category_counts, axes, renders, rendered, delivered, flushed, exit_code,
          stop_cause>>

writerVars == <<exists, file, wpending, appends>>

readerVars == <<cursor, startLen>>

tableVars == <<hourly_category_counts, axes, renders, rendered>>

\* complete lines the file may hold before the consumer starts
RECURSIVE PreLines(_)
PreLines(n) ==
    IF n = 0 THEN {<<>>}
    ELSE PreLines(n - 1) \cup
         { l \o <<Whole(k), NL>> : l \in PreLines(n - 1), k \in PreKinds }

\* what the writer may have left unfinished at the end of the file
Unfinished ==
    {<<>>} \cup { <<HeadPart(k)>> : k \in PreKinds }

RestOf(u) == IF u = <<>> THEN <<>> ELSE <<TailPart(u[1].k), NL>>

InitCommon ==
    /\ appends = 0
    /\ cursor = 0
    /\ startLen = 0
    /\ polledLen = -1
    /\ line = <<>>
    /\ hourly_category_counts = EmptyTable
    /\ axes = EmptyAxes
    /\ renders = 0
    /\ rendered = EmptyTable
    /\ delivered = <<>>
    /\ flushed = FALSE
    /\ exit_code = -1
    /\ stop_cause = "none"

Init ==
    /\ \/ /\ exists = FALSE
          /\ file = <<>>
          /\ wpending = <<>>
       \/ /\ exists = TRUE
          /\ \E l \in PreLines(MaxPre), u \in Unfinished :
                /\ file = l \o u
                /\ wpending = RestOf(u)
    /\ pc = "start"
    /\ InitCommon

(***************************************************************************)
(* The writer of the file (another process): it appends a line in one      *)
(* write, or the head of a line and later its tail and newline, or the     *)
(* body and later the newline, or an empty line.                           *)
(***************************************************************************)
Running == pc \in {"poll", "sleep", "processing", "render"}

WriteLine ==
    /\ Running /\ exists /\ wpending = <<>> /\ appends < MaxAppends
    /\ \E k \in WriterKinds : file' = file \o <<Whole(k), NL>>
    /\ appends' = appends + 1
    /\ UNCHANGED <<exists, wpending, pc, readerVars, polledLen, line, tableVars, delivered,
                   flushed, exit_code, stop_cause>>

WriteFirstPart ==
    /\ Running /\ exists /\ wpending = <<>> /\ appends < MaxAppends
    /\ \E k \in WriterKinds :
          \/ file' = file \o <<HeadPart(k)>> /\ wpending' = <<TailPart(k), NL>>
          \/ file' = file \o <<Whole(k)>> /\ wpending' = <<NL>>
    /\ appends' = appends + 1
    /\ UNCHANGED <<exists, pc, readerVars, polledLen, line, tableVars, delivered,
                   flushed, exit_code, stop_cause>>

WriteRest ==
    /\ Running /\ exists /\ wpending # <<>>
    /\ file' = file \o wpending
    /\ wpending' = <<>>
    /\ UNCHANGED <<exists, appends, pc, readerVars, polledLen, line, tableVars, delivered,
                   flushed, exit_code, stop_cause>>

WriteEmptyLine ==
    /\ Running /\ exists /\ wpending = <<>> /\ appends < MaxAppends
    /\ file' = file \o <<NL>>
    /\ appends' = appends + 1
    /\ UNCHANGED <<exists, wpending, pc, readerVars, polledLen, line, tableVars, delivered,
                   flushed, exit_code, stop_cause>>

(***************************************************************************)
(* main()                                                                  *)
(***************************************************************************)
\* the test inverted: exit when the file is there
file_exists_inverted(e) == ~e

\* line 196: DATA_FILE.exists()
file_exists(e) == e

\* a finally clause that shows nothing
finally_clause_skipped(fl) == fl

\* lines 227-229: plt.ioff(); plt.show() have run
finally_clause(fl) == TRUE

\* lines 196-198: the file does not exist, sys.exit(1)
StartMissing ==
    /\ pc = "start" /\ ~file_exists(exists)
    /\ pc' = "exited"
    /\ exit_code' = 1
    /\ UNCHANGED <<writerVars, readerVars, polledLen, line, tableVars, delivered, flushed, stop_cause>>

\* no seek: the file is read from its beginning
seek_start(f) == 0

\* file.seek(0, os.SEEK_END): the new read position
seek_end(f) == Len(f)

\* lines 202-206: open the file and seek to its end
StartOpen ==
    /\ pc = "start" /\ file_exists(exists)
    /\ cursor' = seek_end(file)
    /\ startLen' = Len(file)
    /\ pc' = "poll"
    /\ UNCHANGED <<writerVars, polledLen, line, tableVars, delivered, flushed, exit_code, stop_cause>>

\* lines 210-213: line = file.readline(); if line.strip(): ... else: ...
Poll ==
    /\ pc = "poll"
    /\ LET text == readline(file, cursor)
       IN  /\ line' = text
           /\ cursor' = cursor + Len(text)
           /\ IF strip(text) # <<>>
              THEN /\ pc' = "processing"
                   /\ delivered' = Append(delivered, [text |-> text, from |-> cursor])
              ELSE /\ pc' = "sleep"
                   /\ UNCHANGED delivered
    /\ polledLen' = Len(file)
    /\ UNCHANGED <<writerVars, startLen, tableVars, flushed, exit_code, stop_cause>>

\* lines 218-221: time.sleep(delay_secs); continue
Sleep ==
    /\ pc = "sleep"
    /\ pc' = "poll"
    /\ UNCHANGED <<writerVars, readerVars, polledLen, line, tableVars, delivered, flushed, exit_code, stop_cause>>

\* lines 133-161 and 168-179 of process_message: the record is counted and
\* the call goes on to update_chart
PM_Count ==
    /\ pc = "processing"
    /\ outcome(line) = "counted"
    /\ hourly_category_counts' = process_message(hourly_category_counts, line)
    /\ pc' = "render"
    /\ UNCHANGED <<writerVars, readerVars, polledLen, line, axes, renders, rendered, delivered,
                   flushed, exit_code, stop_cause>>

\* the record is dropped: an except clause or an else branch logs an error
\* and the call returns to the loop.  An exception no clause catches would
\* reach main's except Exception and its finally clause.
PM_Drop ==
    /\ pc = "processing"
    /\ outcome(line) # "counted"
    /\ hourly_category_counts' = process_message(hourly_category_counts, line)
    /\ IF raised(line) = "none" \/ pm_catches(raised(line))
       THEN /\ pc' = "poll"
            /\ UNCHANGED <<flushed, exit_code, stop_cause>>
       ELSE /\ pc' = "stopped"
            /\ stop_cause' = "record"
            /\ flushed' = finally_clause(flushed)
            /\ exit_code' = 0
    /\ UNCHANGED <<writerVars, readerVars, polledLen, line, axes, renders, rendered, delivered>>

\* lines 164-167: update_chart(), then process_message returns to the loop
PM_UpdateChart ==
    /\ pc = "render"
    /\ axes' = update_chart(axes, hourly_category_counts)
    /\ hourly_category_counts' = chart_reads(hourly_category_counts)
    /\ renders' = renders + 1
    /\ rendered' = hourly_category_counts
    /\ pc' = "poll"
    /\ UNCHANGED <<writerVars, readerVars, polledLen, line, delivered, flushed, exit_code, stop_cause>>

\* lines 223-230: KeyboardInterrupt anywhere in the try block is logged,
\* then the finally clause runs plt.ioff(); plt.show() and main returns
Interrupt ==
    /\ Running
    /\ stop_cause' = "interrupt"
    /\ flushed' = finally_clause(flushed)
    /\ pc' = "stopped"
    /\ exit_code' = 0
    /\ UNCHANGED <<writerVars, readerVars, polledLen, line, tableVars, delivered>>

\* lines 225-230: an exception of readline (an I/O or decoding error) is
\* logged, then the finally clause runs and main returns
ReadFails ==
    /\ pc = "poll"
    /\ stop_cause' = "error"
    /\ flushed' = finally_clause(flushed)
    /\ pc' = "stopped"
    /\ exit_code' = 0
    /\ UNCHANGED <<writerVars, readerVars, polledLen, line, tableVars, delivered>>

\* lines 202 and 225-230: open() raises (the file was removed after the
\* test, or may not be read); the error is logged, the finally clause runs
\* and main returns
OpenFails ==
    /\ pc = "start" /\ file_exists(exists)
    /\ stop_cause' = "error"
    /\ flushed' = finally_clause(flushed)
    /\ pc' = "stopped"
    /\ exit_code' = 0
    /\ UNCHANGED <<writerVars, readerVars, polledLen, line, tableVars, delivered>>

Next ==
    \/ WriteLine
    \/ WriteFirstPart
    \/ WriteRest
    \/ WriteEmptyLine
    \/ StartMissing
    \/ StartOpen
    \/ OpenFails
    \/ Poll
    \/ Sleep
    \/ PM_Count
    \/ PM_Drop
    \/ PM_UpdateChart
    \/ Interrupt
    \/ ReadFails

Spec == Init /\ [][Next]_vars

(***************************************************************************)
(* The run that is never interrupted and meets no error of the file: the   *)
(* loop of main takes its next step whenever it has one (the sleep ends,   *)
(* the call returns); nothing is assumed of the writer.                    *)
(***************************************************************************)
NextLive ==
    \/ WriteLine
    \/ WriteFirstPart
    \/ WriteRest
    \/ WriteEmptyLine
    \/ StartMissing
    \/ StartOpen
    \/ Poll
    \/ Sleep
    \/ PM_Count
    \/ PM_Drop
    \/ PM_UpdateChart

\* the return of update_chart to the loop: the step PM_UpdateChart, named by
\* its effect on pc alone
RenderReturns == pc = "render" /\ pc' = "poll"

SpecLive ==
    /\ Init
    /\ [][NextLive]_vars
    /\ WF_vars(StartOpen)
    /\ WF_vars(Poll)
    /\ WF_vars(Sleep)
    /\ WF_vars(PM_Count)
    /\ WF_vars(PM_Drop)
    /\ WF_pc(RenderReturns)

(***************************************************************************)
(* process_message called directly, line after line, with any of the       *)
(* texts of Payloads.                                                      *)
(***************************************************************************)
InitPM ==
    /\ exists = TRUE
    /\ file = <<>>
    /\ wpending = <<>>
    /\ pc = "poll"
    /\ InitCommon

\* the caller passes one line, as main does: the text and its newline
Feed ==
    /\ pc = "poll"
    /\ Len(delivered) < MaxFeed
    /\ \E k \in FeedKinds :
          /\ line' = <<Whole(k), NL>>
          /\ delivered' = Append(delivered, [text |-> <<Whole(k), NL>>, from |-> 0])
    /\ pc' = "processing"
    /\ UNCHANGED <<writerVars, readerVars, polledLen, tableVars, flushed, exit_code, stop_cause>>

NextPM ==
    \/ Feed
    \/ PM_Count
    \/ PM_Drop
    \/ PM_UpdateChart

SpecPM == InitPM /\ [][NextPM]_vars

(***************************************************************************)
(* update_chart called directly as well, any number of times between the   *)
(* lines.                                                                  *)
(***************************************************************************)
\* the records fed to process_message under SpecChart: palette categories
\* at two hours, an unrecognized category, a rejected record and the record
\* with a JSON-array category
ChartKinds == {1, 3, 4, 6, 10}

FeedChart ==
    /\ pc = "poll"
    /\ Len(delivered) < MaxFeed
    /\ \E k \in ChartKinds :
          /\ line' = <<Whole(k), NL>>
          /\ delivered' = Append(delivered, [text |-> <<Whole(k), NL>>, from |-> 0])
    /\ pc' = "processing"
    /\ UNCHANGED <<writerVars, readerVars, polledLen, tableVars, flushed, exit_code, stop_cause>>

Redraw ==
    /\ pc = "poll"
    /\ renders < MaxRenders
    /\ axes' = update_chart(axes, hourly_category_counts)
    /\ hourly_category_counts' = chart_reads(hourly_category_counts)
    /\ renders' = renders + 1
    /\ rendered' = hourly_category_counts
    /\ UNCHANGED <<writerVars, readerVars, polledLen, line, pc, delivered, flushed,
                   exit_code, stop_cause>>

ChartCount == PM_Count /\ renders < MaxRenders

NextChart ==
    \/ FeedChart
    \/ ChartCount
    \/ PM_Drop
    \/ PM_UpdateChart
    \/ Redraw

SpecChart == InitPM /\ [][NextChart]_vars

(***************************************************************************)
(* Vocabulary of the properties.                                           *)
(***************************************************************************)
\* the sum of f over the set S
RECURSIVE SumOver(_, _)
SumOver(f, S) ==
    IF S = {} THEN 0
    ELSE LET x == CHOOSE y \in S : TRUE
         IN  f[x] + SumOver(f, S \ {x})

\* the sum of all the counts of a table
Total(t) ==
    LET nz == UNION {{<<h, c>> : c \in {x \in DOMAIN t[h] : t[h][x] # 0}} : h \in DOMAIN t}
    IN  SumOver([p \in nz |-> t[p[1]][p[2]]], nz)

\* the hour and category keys a cell can have
HourKeys(t) == Hours \cup DOMAIN t

CatKeys(t) ==
    UNION { DOMAIN t[h] : h \in DOMAIN t }
        \cup { get_category(Payloads[k]) : k \in DOMAIN Payloads }
        \cup { Str(Palette[i]) : i \in DOMAIN Palette }

\* a line that parses: a JSON object with a non-empty timestamp string that
\* matches the format
WellFormed(text) ==
    LET r == json_loads(text)
    IN  /\ ~r.err
        /\ r.val.kind = "dict"
        /\ r.val.has_ts
        /\ r.val.ts.t = "str"
        /\ r.val.ts.s # <<>>
        /\ strptime(r.val.ts.s).ok

\* a Record of the data model: it parses and its category, when present, is
\* a JSON string or null (a value that can key the table)
ValidRecord(text) ==
    /\ WellFormed(text)
    /\ json_loads(text).val.has_cat => json_loads(text).val.cat.t \in {"str", "none"}

\* the hour as written in a timestamp: the digits between the blank and the
\* first colon
WrittenHour(s) ==
    LET c == CHOOSE i \in 1..Len(s) : s[i] = ":" /\ \A j \in 1..(i - 1) : s[j] # ":"
        b == CHOOSE i \in 1..(c - 1) : s[i] = " " /\ \A j \in (i + 1)..(c - 1) : s[j] # " "
    IN  NumVal(SubSeq(s, b + 1, c - 1))

\* the cell of each delivered line that is a valid record: the hour written
\* in its timestamp and its category, "other" when it has none
NoKey == <<-1, None>>

KeyOf(text) ==
    IF ValidRecord(text)
    THEN LET d == json_loads(text).val
         IN  <<WrittenHour(d.ts.s), IF d.has_cat THEN d.cat ELSE Str("other")>>
    ELSE NoKey

\* every line handed to process_message has been processed
Idle == pc \in {"poll", "sleep"}

\* the step of process_message that ends the processing of the line
LeavesProcessing == pc = "processing" /\ pc' # "processing"

(***************************************************************************)
(* C1.  After each line, the sum of all counts equals the number of lines  *)
(* seen so far that parsed (JSON object, non-empty timestamp matching the  *)
(* format).  The code does not count a parsed line whose category is a     *)
(* JSON array.                                                             *)
(***************************************************************************)
C1_TotalEqualsParsed ==
    Idle =>
        Total(hourly_category_counts) =
            Cardinality({ i \in DOMAIN delivered : WellFormed(delivered[i].text) })

(***************************************************************************)
(* C2.  A rejected line (not JSON, not an object, timestamp absent, empty  *)
(* or not matching the format) leaves the table as it was, key for key,    *)
(* and update_chart is not called for it.                                  *)
(***************************************************************************)
C2_RejectedLeavesTable ==
    [][(LeavesProcessing /\ ~WellFormed(line)) =>
          /\ hourly_category_counts' = hourly_category_counts
          /\ pc' # "render"
          /\ renders' = renders
          /\ axes' = axes]_vars

C2_Witness ==
    /\ pc = "poll"
    /\ Len(delivered) = 3
    /\ \E i \in DOMAIN delivered : outcome(delivered[i].text) = "JSONDecodeError"
    /\ \E i \in DOMAIN delivered : outcome(delivered[i].text) = "not_dict"
    /\ \E i \in DOMAIN delivered : get_timestamp(json_loads(delivered[i].text).val).s = TsHour99
    /\ hourly_category_counts = EmptyTable
    /\ renders = 0

(***************************************************************************)
(* C3.  A record failure never stops the loop: the step that ends the      *)
(* processing of a line that is not counted returns to WAITING (the next   *)
(* readline), unless the user interrupts; no failure of a record reaches   *)
(* main's except clause.                                                   *)
(***************************************************************************)
C3_RecordFailureReturnsToWaiting ==
    [][(LeavesProcessing /\ outcome(line) # "counted") =>
          \/ pc' = "poll" /\ stop_cause' = "none"
          \/ stop_cause' = "interrupt"]_vars

C3_Witness ==
    /\ pc = "poll"
    /\ stop_cause = "none"
    /\ \E i \in DOMAIN delivered : outcome(delivered[i].text) = "unhashable"
    /\ \E i \in DOMAIN delivered : outcome(delivered[i].text) = "ValueError"

(***************************************************************************)
(* C4.  The reader never hands a partial line to process_message: every    *)
(* text delivered is newline-terminated and, when it lies after the        *)
(* position the file was opened at, starts at the start of a line.         *)
(* readline returns the text up to the end of the file when no newline     *)
(* follows, and main processes it.                                         *)
(***************************************************************************)
C4_NoPartialLineDelivered ==
    \A i \in DOMAIN delivered :
        LET d == delivered[i]
        IN  /\ d.text[Len(d.text)] = NL
            /\ d.from > startLen => file[d.from] = NL

(***************************************************************************)
(* C5.  Text is delivered in write order and at most once, and the cursor  *)
(* never moves backwards: each delivered text is what the file holds       *)
(* between the cursor before and after the read, and starts at or after    *)
(* the end of every text delivered before.                                 *)
(***************************************************************************)
PollStep == pc = "poll" /\ pc' \in {"processing", "sleep"}

InOrderAtMostOnce ==
    /\ cursor' >= cursor
    /\ cursor' <= Len(file')
    /\ delivered' # delivered =>
          LET d == delivered'[Len(delivered')]
          IN  /\ delivered' = Append(delivered, d)
              /\ d.from = cursor
              /\ d.text = SubSeq(file, cursor + 1, cursor')
              /\ \A j \in DOMAIN delivered :
                    delivered[j].from + Len(delivered[j].text) <= d.from

\* C5 as claimed: in order, at most once, and a poll made when nothing was
\* written since the previous poll delivers no line
C5_NoWriteNoLine ==
    [][/\ InOrderAtMostOnce
       /\ (PollStep /\ polledLen = Len(file)) => delivered' = delivered]_vars

\* C5 as amended: in order, at most once, and a poll made when the cursor
\* is at the end of the file delivers no line and goes to sleep
C5_NothingUnreadNoLine ==
    [][/\ InOrderAtMostOnce
       /\ (PollStep /\ cursor = Len(file)) => (delivered' = delivered /\ pc' = "sleep")]_vars

C5_Witness ==
    /\ pc = "sleep"
    /\ cursor = Len(file)
    /\ Len(delivered) = 2
    /\ delivered[1].from < delivered[2].from
    /\ \A i \in DOMAIN delivered : delivered[i].text[Len(delivered[i].text)] = NL

(***************************************************************************)
(* C6.  Nothing the file held when it was opened is passed to              *)
(* process_message or counted: every delivered text lies after the         *)
(* position the file ended at on open, and at most the delivered texts     *)
(* are counted.                                                            *)
(***************************************************************************)
C6_NoReplayOfHistory ==
    /\ pc \notin {"start", "exited"} => cursor >= startLen
    /\ \A i \in DOMAIN delivered :
          LET d == delivered[i]
          IN  /\ d.from >= startLen
              /\ d.text = SubSeq(file, d.from + 1, d.from + Len(d.text))
    /\ Total(hourly_category_counts) <= Len(delivered)

C6_Witness ==
    /\ pc = "poll"
    /\ startLen >= 2
    /\ WellFormed(SubSeq(file, 1, 2))
    /\ Len(delivered) = 1
    /\ Total(hourly_category_counts) = 1

(***************************************************************************)
(* C7.  Each valid record adds exactly 1 to its own cell and nothing to    *)
(* any other, without deduplication: between lines, every cell holds the   *)
(* number of valid records of that cell processed so far.                  *)
(***************************************************************************)
C7_CellCountsOccurrences ==
    Idle =>
        \A keys \in {[i \in DOMAIN delivered |-> KeyOf(delivered[i].text)]} :
            \A h \in HourKeys(hourly_category_counts),
               c \in CatKeys(hourly_category_counts) :
                Cell(hourly_category_counts, h, c) =
                    Cardinality({ i \in DOMAIN delivered : keys[i] = <<h, c>> })

C7_Witness ==
    /\ pc = "poll"
    /\ Len(delivered) >= 2
    /\ delivered[1].text = delivered[2].text
    /\ ValidRecord(delivered[1].text)
    /\ Cell(hourly_category_counts, KeyOf(delivered[1].text)[1],
            KeyOf(delivered[1].text)[2]) = 2

(***************************************************************************)
(* C8.  A valid record with no category adds 1 to the cell ("other") of    *)
(* the hour written in its timestamp; "2025-01-29 14:35:20" adds 1 to      *)
(* cell (14, "other").                                                     *)
(***************************************************************************)
NoCategory(text) == ValidRecord(text) /\ ~json_loads(text).val.has_cat

C8_NoCategoryCountsAsOther ==
    [][(LeavesProcessing /\ NoCategory(line)) =>
          LET h == WrittenHour(json_loads(line).val.ts.s)
          IN  /\ Cell(hourly_category_counts', h, Str("other")) =
                    Cell(hourly_category_counts, h, Str("other")) + 1
              /\ Total(hourly_category_counts') = Total(hourly_category_counts) + 1
              /\ json_loads(line).val.ts.s = TsGood => h = 14]_vars

C8_Witness ==
    /\ pc = "poll"
    /\ Len(delivered) = 1
    /\ NoCategory(delivered[1].text)
    /\ json_loads(delivered[1].text).val.ts.s = TsGood
    /\ Cell(hourly_category_counts, 14, Str("other")) = 1

(***************************************************************************)
(* C9.  A valid record whose category is a string outside the palette.     *)
(***************************************************************************)
InPalette(c) == \E i \in DOMAIN Palette : c = Str(Palette[i])

Unrecognized(text) ==
    /\ ValidRecord(text)
    /\ json_loads(text).val.has_cat
    /\ json_loads(text).val.cat.t = "str"
    /\ ~InPalette(json_loads(text).val.cat)

\* C9 as claimed: it is counted under "other", as a record without category is
C9_UnrecognizedCountsAsOther ==
    [][(LeavesProcessing /\ Unrecognized(line)) =>
          LET h == WrittenHour(json_loads(line).val.ts.s)
          IN  Cell(hourly_category_counts', h, Str("other")) =
                  Cell(hourly_category_counts, h, Str("other")) + 1]_vars

\* C9 as amended: it is counted under its own category, and the cell
\* "other" of its hour keeps its count
C9_UnrecognizedCountsAsItself ==
    [][(LeavesProcessing /\ Unrecognized(line)) =>
          LET h == WrittenHour(json_loads(line).val.ts.s)
              c == json_loads(line).val.cat
          IN  /\ Cell(hourly_category_counts', h, c) =
                    Cell(hourly_category_counts, h, c) + 1
              /\ Cell(hourly_category_counts', h, Str("other")) =
                    Cell(hourly_category_counts, h, Str("other"))
              /\ Total(hourly_category_counts') = Total(hourly_category_counts) + 1]_vars

C9_Witness ==
    /\ pc = "poll"
    /\ Len(delivered) = 1
    /\ Unrecognized(delivered[1].text)
    /\ Cell(hourly_category_counts, 14, Str("sports")) = 1
    /\ Cell(hourly_category_counts, 14, Str("other")) = 0

(***************************************************************************)
(* C10.  update_chart draws exactly one series for each palette category   *)
(* whose total over the hours 0..23 is not zero and no other series; each  *)
(* series has the 24 points (hour, count of the cell) and the colour of    *)
(* its category.                                                           *)
(***************************************************************************)
RECURSIVE HourTotal(_, _, _)
HourTotal(t, c, h) ==
    IF h < 0 THEN 0 ELSE Cell(t, h, c) + HourTotal(t, c, h - 1)

ColourOf(c) ==
    CASE c = "humor" -> "red"
      [] c = "tech" -> "blue"
      [] c = "food" -> "green"
      [] c = "travel" -> "orange"
      [] c = "entertainment" -> "purple"
      [] c = "gaming" -> "brown"
      [] c = "other" -> "gray"

Drawn(ax, t) ==
    /\ \A i \in DOMAIN Palette :
          Cardinality({ j \in DOMAIN ax.lines : ax.lines[j].label = capitalize(Palette[i]) })
              = IF HourTotal(t, Str(Palette[i]), 23) > 0 THEN 1 ELSE 0
    /\ \A j \in DOMAIN ax.lines :
          \E i \in DOMAIN Palette :
              /\ ax.lines[j].label = capitalize(Palette[i])
              /\ ax.lines[j].color = ColourOf(Palette[i])
              /\ DOMAIN ax.lines[j].x = 1..24
              /\ DOMAIN ax.lines[j].y = 1..24
              /\ \A h \in 0..23 :
                    /\ ax.lines[j].x[h + 1] = h
                    /\ ax.lines[j].y[h + 1] = Cell(t, h, Str(Palette[i]))

C10_DrawsNonZeroPaletteSeries ==
    [][renders' # renders => Drawn(axes', hourly_category_counts)]_vars

C10_Witness ==
    /\ renders = 3
    /\ Len(axes.lines) = 2
    /\ Cell(hourly_category_counts, 14, Str("sports")) = 1
    /\ Cell(hourly_category_counts, 14, Str("tech")) = 1
    /\ Cell(hourly_category_counts, 23, Str("humor")) = 1

(***************************************************************************)
(* C11.  Rendering is idempotent and replaces the previous picture: a call *)
(* of update_chart made when no count has changed since the call before    *)
(* it leaves the lines and the legend as they were, and after any call the *)
(* axes hold exactly what one call on empty axes draws from the table, the *)
(* legend naming each line once.                                           *)
(***************************************************************************)
SameCounts(t, u) ==
    \A h \in HourKeys(t) \cup HourKeys(u) :
        \A c \in CatKeys(t) \cup CatKeys(u) : Cell(t, h, c) = Cell(u, h, c)

RenderStep == renders' # renders

C11_RenderIdempotentAndReplaces ==
    [][RenderStep =>
          /\ (renders > 0 /\ SameCounts(hourly_category_counts, rendered)) => axes' = axes
          /\ axes' = update_chart(EmptyAxes, hourly_category_counts)
          /\ Len(axes'.legend) = Len(axes'.lines)
          /\ \A i, j \in DOMAIN axes'.lines :
                 axes'.lines[i].label = axes'.lines[j].label => i = j]_vars

\* three calls in a row on a table with two series, after a picture with one
C11_Witness ==
    /\ renders = 4
    /\ Len(delivered) = 2
    /\ Len(axes.lines) = 2
    /\ SameCounts(hourly_category_counts, rendered)

Ended == pc \in {"exited", "stopped"}

AppendedRecords ==
    IF pc \in {"start", "exited"} THEN {}
    ELSE { i \in (startLen + 1)..Len(file) :
              /\ i = 1 \/ file[i - 1] = NL
              /\ \A l \in {readline(file, i - 1)} :
                     /\ l[Len(l)] = NL
                     /\ ValidRecord(l) }

C14_AppendedRecordEventuallyCounted ==
    \A n \in 1..MaxAppends :
        (Cardinality(AppendedRecords) >= n) ~> (Total(hourly_category_counts) >= n)

(***************************************************************************)
(* C15.  Across every step, the count of every (hour, category) cell is    *)
(* monotonically non-decreasing: no step lowers or resets a count.         *)
(***************************************************************************)
C15_CountsNeverDecrease ==
    [][hourly_category_counts' # hourly_category_counts =>
          \A h \in DOMAIN hourly_category_counts :
              \A c \in DOMAIN hourly_category_counts[h] :
                  Cell(hourly_category_counts', h, c) >= hourly_category_counts[h][c]]_vars

\* a cell counted twice and drawn twice, and the run stopped
C15_Witness ==
    /\ pc = "stopped"
    /\ renders = 2
    /\ Cell(hourly_category_counts, 14, Str("tech")) = 2

(***************************************************************************)
(* C16.  In WAITING the loop sleeps exactly when the poll returned no      *)
(* line; when the poll returned a line, an empty or whitespace-only line   *)
(* included, the loop goes to PROCESSING with that line without sleeping.  *)
(***************************************************************************)
Handed(text) ==
    /\ pc' = "processing"
    /\ delivered' = Append(delivered, [text |-> text, from |-> cursor])

\* C16 as claimed
C16_SleepsIffNoLine ==
    [][PollStep =>
          /\ pc' = "sleep" <=> line' = <<>>
          /\ line' # <<>> => Handed(line')]_vars

\* the text is nothing but whitespace (newlines), or nothing at all
Blank(text) == \A i \in DOMAIN text : text[i] = NL

\* C16 as amended: the loop sleeps exactly when the text the poll returned
\* is empty or blank, and no blank line reaches process_message; a text
\* that is not blank goes to PROCESSING at once
C16_SleepsIffNothingOrBlank ==
    [][PollStep =>
          /\ line' = readline(file, cursor)
          /\ pc' = "sleep" <=> Blank(line')
          /\ Blank(line') => delivered' = delivered
          /\ ~Blank(line') => Handed(line')]_vars

\* a blank line was read and the loop sleeps
C16_Witness ==
    /\ pc = "sleep"
    /\ line = <<NL>>
    /\ cursor = startLen + 1

(***************************************************************************)
(* C17.  update_chart is called once for each record counted, after the    *)
(* increment and before the next line is read, and never for a line that   *)
(* was not counted: whenever the loop is about to read, is asleep, or has  *)
(* just been handed a line, the number of calls equals the number of       *)
(* records counted; between an increment and its call it is one less; and  *)
(* it is never more.                                                       *)
(***************************************************************************)
C17_OneRenderPerCountedRecord ==
    \A n \in {Total(hourly_category_counts)} :
        /\ pc \in {"poll", "sleep", "processing"} => renders = n
        /\ pc = "render" => renders + 1 = n
        /\ renders <= n
        /\ n <= renders + 1

\* two records counted and drawn, a third line dropped in between, and the
\* loop about to read again
C17_Witness ==
    /\ pc = "poll"
    /\ renders = 2
    /\ Total(hourly_category_counts) = 2
    /\ Len(delivered) = 3

(***************************************************************************)
(* C18.  update_chart leaves the table as it found it: a call changes no   *)
(* count and adds no (hour, category) cell.                                *)
(***************************************************************************)
C18_RenderLeavesTable ==
    [][RenderStep => hourly_category_counts' = hourly_category_counts]_vars

(***************************************************************************)
(* C19.  Every cell with a count above zero has an hour key in 0..23, so   *)
(* the 24 hours that update_chart draws cover every counted record of a    *)
(* palette category: after a call, the y-values plotted for a category     *)
(* add up to the total of its counts over all the rows of the table.       *)
(***************************************************************************)
\* the total of a category over every row of the table, whatever its key
ColumnTotal(t, c) == SumOver([h \in DOMAIN t |-> Cell(t, h, c)], DOMAIN t)

\* the total of the y-values of the lines drawn for a palette category
PlottedSum(ax, category) ==
    LET js == { j \in DOMAIN ax.lines : ax.lines[j].label = capitalize(category) }
    IN  SumOver([j \in js |-> sum(ax.lines[j].y)], js)

C19_HoursCoverEveryCount ==
    [][hourly_category_counts' # hourly_category_counts =>
          /\ \A h \in DOMAIN hourly_category_counts' :
                 \A c \in DOMAIN hourly_category_counts'[h] :
                     hourly_category_counts'[h][c] > 0 => h \in 0..23
          /\ RenderStep =>
                 \A i \in DOMAIN Palette :
                     PlottedSum(axes', Palette[i])
                         = ColumnTotal(hourly_category_counts', Str(Palette[i]))]_vars

\* counts at the first and at the last hour of the day, both drawn
C19_Witness ==
    /\ renders = 2
    /\ Cell(hourly_category_counts, 0, Str("other")) = 1
    /\ Cell(hourly_category_counts, 23, Str("humor")) = 1
    /\ Len(axes.lines) = 2

(***************************************************************************)
(* C20.  The chart is never stale while the loop waits: in every state     *)
(* where the loop is about to call readline or is asleep, the lines on     *)
(* the axes are exactly those update_chart would draw from the table as    *)
(* it is now, and the legend names them; while nothing has been counted    *)
(* the axes are empty.                                                     *)
(***************************************************************************)
C20_ChartFreshWhileWaiting ==
    Idle =>
        IF Total(hourly_category_counts) = 0
        THEN axes = EmptyAxes
        ELSE /\ Drawn(axes, hourly_category_counts)
             /\ axes.legend = [j \in DOMAIN axes.lines |-> axes.lines[j].label]

\* one record counted and drawn, a later line dropped, and the loop asleep
C20_Witness ==
    /\ pc = "sleep"
    /\ renders = 1
    /\ Len(delivered) = 2
    /\ Len(axes.lines) = 1
    /\ Total(hourly_category_counts) = 1

====
